---- MODULE Spec2Model ----
(***************************************************************************)
(* Model of the two command-line skills of local-agent/src/skills:         *)
(*   excel-skill.py  (info, list-sheets, read, read-cell, write-cell,      *)
(*                    search)                                              *)
(*   word-skill.py   (info, read, read-tables, replace, replace-batch,     *)
(*                    fill-table)                                          *)
(* One action per command handler.  Text is a sequence of one-character    *)
(* strings, so that str(), float(), lower(), `in` and replace() are        *)
(* computed and not assumed.                                               *)
(***************************************************************************)
EXTENDS Integers, Sequences, FiniteSets, TLC

VARIABLES fs, fsBefore, inv, stdout, exitCode, events, mutations, lastWrite

vars == <<fs, fsBefore, inv, stdout, exitCode, events, mutations, lastWrite>>

(***************************************************************************)
(* Bounds of the model.                                                    *)
(***************************************************************************)
\* runs that change the disk, per behaviour
MaxMutations == 1
\* rows below the header row in the sheets Init draws
MaxDataRows == 2
\* body paragraphs in the documents Init draws
MaxParas == 1

(***************************************************************************)
(* Python text primitives.                                                 *)
(***************************************************************************)
Min(a, b) == IF a < b THEN a ELSE b

UpperChars == <<"A","B","C","D","E","F","G","H","I","J","K","L","M",
                "N","O","P","Q","R","S","T","U","V","W","X","Y","Z">>
LowerChars == <<"a","b","c","d","e","f","g","h","i","j","k","l","m",
                "n","o","p","q","r","s","t","u","v","w","x","y","z">>
DigitChars == <<"0","1","2","3","4","5","6","7","8","9">>

\* str.lower() on one character
LowerChar(c) ==
    IF \E i \in 1..26 : UpperChars[i] = c
    THEN LowerChars[CHOOSE i \in 1..26 : UpperChars[i] = c]
    ELSE c

\* str.lower()
Lower(s) == [i \in 1..Len(s) |-> LowerChar(s[i])]

\* `sub in s` on str
Contains(sub, s) ==
    \E i \in 1..(Len(s) - Len(sub) + 1) : SubSeq(s, i, i + Len(sub) - 1) = sub

\* str.replace(old, new): all non-overlapping occurrences, left to right
RECURSIVE Replace(_, _, _)
Replace(s, old, new) ==
    IF old = <<>>
    THEN IF s = <<>> THEN new
         ELSE new \o <<Head(s)>> \o Replace(Tail(s), old, new)
    ELSE IF Len(s) < Len(old) THEN s
    ELSE IF SubSeq(s, 1, Len(old)) = old
         THEN new \o Replace(SubSeq(s, Len(old) + 1, Len(s)), old, new)
         ELSE <<Head(s)>> \o Replace(Tail(s), old, new)

IsSpace(c) == c \in {" ", "\n"}

\* str.strip()
RECURSIVE LStrip(_)
LStrip(s) == IF s # <<>> /\ IsSpace(Head(s)) THEN LStrip(Tail(s)) ELSE s
RECURSIVE RStrip(_)
RStrip(s) ==
    IF s # <<>> /\ IsSpace(s[Len(s)]) THEN RStrip(SubSeq(s, 1, Len(s) - 1)) ELSE s
Strip(s) == RStrip(LStrip(s))

\* sep.join(parts)
RECURSIVE Join(_, _)
Join(sep, parts) ==
    IF parts = <<>> THEN <<>>
    ELSE IF Len(parts) = 1 THEN parts[1]
    ELSE parts[1] \o sep \o Join(sep, Tail(parts))

IsDigit(c) == \E i \in 1..10 : DigitChars[i] = c
DigitVal(c) == (CHOOSE i \in 1..10 : DigitChars[i] = c) - 1

\* decimal text of a natural number
RECURSIVE NatToText(_)
NatToText(n) ==
    IF n < 10 THEN <<DigitChars[n + 1]>>
    ELSE NatToText(n \div 10) \o <<DigitChars[(n % 10) + 1]>>

\* value of a text of digits (0 for the empty text)
RECURSIVE DigitsToNat(_)
DigitsToNat(s) ==
    IF s = <<>> THEN 0
    ELSE 10 * DigitsToNat(SubSeq(s, 1, Len(s) - 1)) + DigitVal(s[Len(s)])

RECURSIVE Pow10(_)
Pow10(k) == IF k = 0 THEN 1 ELSE 10 * Pow10(k - 1)

\* k zeros
Zeros(k) == [i \in 1..k |-> "0"]

(***************************************************************************)
(* Dynamically typed values: cell values and Python objects.               *)
(*   none | str s | int n | float (-1)^neg * m / 10^e (m, e normalised:    *)
(*   no trailing zero in the fraction) | nan | inf                         *)
(***************************************************************************)
None == [t |-> "none"]
VStr(s) == [t |-> "str", s |-> s]
VInt(n) == [t |-> "int", n |-> n]
VFloat(neg, m, e) == [t |-> "float", neg |-> neg, m |-> m, e |-> e]
VNan == [t |-> "nan"]
VInf(neg) == [t |-> "inf", neg |-> neg]

\* drop trailing zeros of the fraction
RECURSIVE NormFloat(_, _, _)
NormFloat(neg, m, e) ==
    IF e > 0 /\ m % 10 = 0 THEN NormFloat(neg, m \div 10, e - 1)
    ELSE VFloat(neg, m, e)

\* float(s): optional sign, then nan | inf | infinity (any case) or
\* digits with at most one point and at least one digit
ParseFloat(s) ==
    LET low == Lower(s)
        signed == low # <<>> /\ Head(low) \in {"+", "-"}
        neg == low # <<>> /\ Head(low) = "-"
        body == IF signed THEN Tail(low) ELSE low
        dots == {i \in 1..Len(body) : body[i] = "."}
        dot == IF dots = {} THEN Len(body) + 1 ELSE CHOOSE i \in dots : TRUE
        ip == SubSeq(body, 1, dot - 1)
        fp == SubSeq(body, dot + 1, Len(body))
        wellFormed == /\ Cardinality(dots) <= 1
                      /\ \A i \in 1..Len(body) : i \in dots \/ IsDigit(body[i])
                      /\ Len(ip) + Len(fp) >= 1
    IN  IF body = <<"n","a","n">> THEN [ok |-> TRUE, val |-> VNan]
        ELSE IF body \in {<<"i","n","f">>, <<"i","n","f","i","n","i","t","y">>}
             THEN [ok |-> TRUE, val |-> VInf(neg)]
        ELSE IF wellFormed
             THEN [ok |-> TRUE,
                   val |-> NormFloat(neg, DigitsToNat(ip \o fp), Len(fp))]
        ELSE [ok |-> FALSE]

\* str(v)
Str(v) ==
    CASE v.t = "none" -> <<"N","o","n","e">>
      [] v.t = "str" -> v.s
      [] v.t = "int" -> IF v.n < 0 THEN <<"-">> \o NatToText(-v.n) ELSE NatToText(v.n)
      [] v.t = "nan" -> <<"n","a","n">>
      [] v.t = "inf" -> (IF v.neg THEN <<"-">> ELSE <<>>) \o <<"i","n","f">>
      [] v.t = "float" ->
            LET ipart == v.m \div Pow10(v.e)
                fpart == v.m % Pow10(v.e)
                ftext == NatToText(fpart)
                frac == IF v.e = 0 THEN <<"0">>
                        ELSE Zeros(v.e - Len(ftext)) \o ftext
            IN  (IF v.neg THEN <<"-">> ELSE <<>>)
                    \o NatToText(ipart) \o <<".">> \o frac


(***************************************************************************)
(* Command-line arguments and the file system.                             *)
(***************************************************************************)
\* an absent optional argument (argparse default None) and a given one
NoArg == [some |-> FALSE]
Arg(v) == [some |-> TRUE, v |-> v]
\* truthiness of an optional argument: None and "" are false
GivenName(a) == a.some /\ a.v # ""
GivenPath(a) == a.some /\ a.v # <<>>

Home == "/home/user"

\* os.path.expanduser on a path <<directory, name>>
Expanduser(p) == IF Head(p) = "~" THEN <<Home>> \o Tail(p) ELSE p

BookPath == <<Home, "book.xlsx">>
DocPath == <<Home, "letter.docx">>
OutPath == <<Home, "out.docx">>
Disk == {BookPath, DocPath, OutPath}

NoFile == [kind |-> "absent"]
XlsxFile(wb) == [kind |-> "xlsx", wb |-> wb]
DocxFile(doc) == [kind |-> "docx", doc |-> doc]

\* os.path.exists
Exists(disk, p) == p \in DOMAIN disk /\ disk[p].kind # "absent"

\* the JSON objects written to standard output
ErrObj(msg) == [error |-> msg]
IsError(o) == "error" \in DOMAIN o
Usage == [usage |-> "help"]

(***************************************************************************)
(* Outcome of one run of a tool: the library calls made (ev), the objects  *)
(* printed (out), the exit status (code) and the disk afterwards.          *)
(***************************************************************************)
Outcome(ev, out, code, disk) == [ev |-> ev, out |-> out, code |-> code, disk |-> disk]

\* the top-level `except Exception as e`: print the error object, exit 1
Caught(ev, out, msg, disk) ==
    Outcome(ev \o <<"print_error">>, out \o <<ErrObj(msg)>>, 1, disk)

\* The statements of a handler after its body, in source order.  `fault`
\* names the library call that raises in this run ("none": no call does).
RECURSIVE Steps(_, _, _, _, _, _)
Steps(order, fault, b, ev, out, disk) ==
    IF order = <<>> THEN Outcome(ev, out, 0, disk)
    ELSE LET st == Head(order)
         IN  CASE st = "close" ->
                    IF fault = "close"
                    THEN Caught(ev, out, [exc |-> "OSError", in |-> "close"], disk)
                    ELSE Steps(Tail(order), fault, b, ev \o <<"close">>, out, disk)
               [] st = "save" ->
                    IF fault = "save"
                    THEN Caught(ev, out, [exc |-> "OSError", in |-> "save"], disk)
                    ELSE Steps(Tail(order), fault, b, ev \o <<"save">>, out,
                               [disk EXCEPT ![b.savePath] = b.file])
               [] st = "print" ->
                    Steps(Tail(order), fault, b, ev \o <<"print_result">>,
                          out \o <<b.result>>, disk)

\* the file at a path; nothing at a path outside the disk
FileAt(disk, p) == IF p \in DOMAIN disk THEN disk[p] ELSE NoFile

\* main() without the existence check
PrecheckImportOnly(disk, a, notInstalled) ==
    IF ~a.dep
    THEN [go |-> FALSE,
          outcome |-> Outcome(<<>>, <<ErrObj([msg |-> notInstalled])>>, 1, disk)]
    ELSE [go |-> TRUE]

\* main() before the handler: the import of the format library, then the
\* existence check.  [go |-> TRUE] when the handler is reached.
Precheck(disk, a, notInstalled) ==
    IF ~a.dep
    THEN [go |-> FALSE,
          outcome |-> Outcome(<<>>, <<ErrObj([msg |-> notInstalled])>>, 1, disk)]
    ELSE IF ~Exists(disk, Expanduser(a.filepath))
    THEN [go |-> FALSE,
          outcome |-> Outcome(<<>>,
                              <<ErrObj([msg |-> "File not found: ",
                                        path |-> Expanduser(a.filepath)])>>,
                              1, disk)]
    ELSE [go |-> TRUE]

\* an except block that would save the object in memory before reporting
OnFailureSaving(b, disk) ==
    Caught(b.ev \o <<"save">>, <<>>, b.msg, [disk EXCEPT ![b.savePath] = b.file])

\* an exception raised in a handler's body: b.file is the object in memory
\* when it was raised; the except block reports and exits without saving
OnFailure(b, disk) == Caught(b.ev, <<>>, b.msg, disk)

\* what a handler's body yields: an exception, or the result to print and
\* the object to save
Failed(msg, file, path) ==
    [ok |-> FALSE, msg |-> msg, file |-> file, savePath |-> path, ev |-> <<"open">>]
Saving(r, file, path) == [ok |-> TRUE, result |-> r, file |-> file, savePath |-> path]
\* the same for a handler that leaves the object as loaded
Raise(msg, file, a) == Failed(msg, file, Expanduser(a.filepath))
Result(r, file, a) == Saving(r, file, Expanduser(a.filepath))

\* load_workbook(filepath) / Document(filepath), the first statement of
\* every handler: it raises on a file of another format
Loads(file, kind, a) == a.fault # "open" /\ file.kind = kind
OpenFailed(file, a) ==
    [ok |-> FALSE, msg |-> [exc |-> "OSError", in |-> "open"], file |-> file,
     savePath |-> Expanduser(a.filepath), ev |-> <<>>]

\* main(): the checks, then the handler inside try/except; b is what the
\* handler's body yields
Main(disk, a, notInstalled, order, b) ==
    LET pre == Precheck(disk, a, notInstalled)
    IN  IF ~pre.go THEN pre.outcome
        ELSE IF ~b.ok THEN OnFailure(b, disk)
        ELSE Steps(order, a.fault, b, <<"open">>, <<>>, disk)

(***************************************************************************)
(* Workbooks: [sheets |-> sequence of [name, rows], active |-> index];     *)
(* rows is the grid as iter_rows yields it, a sequence of rows of values.  *)
(***************************************************************************)
SheetNames(wb) == [i \in 1..Len(wb.sheets) |-> wb.sheets[i].name]

\* wb[args.sheet] if args.sheet else wb.active : index of the sheet, 0 if
\* the name is unknown (KeyError)
SheetIndex(wb, sheet) ==
    IF GivenName(sheet)
    THEN IF \E i \in 1..Len(wb.sheets) : wb.sheets[i].name = sheet.v
         THEN CHOOSE i \in 1..Len(wb.sheets) : wb.sheets[i].name = sheet.v
         ELSE 0
    ELSE wb.active

NoSheet(sheet) == [exc |-> "KeyError", sheet |-> sheet.v]

\* str(v) for every v, None included
StrAlways(v) == Str(v)

\* str(v) if v is not None else ""
StrOrEmpty(v) == IF v = None THEN <<>> ELSE Str(v)

\* value of the cell at (r, c); cells outside the stored grid are empty
CellValue(rows, r, c) ==
    IF r <= Len(rows) /\ c <= Len(rows[r]) THEN rows[r][c] ELSE None

Max(a, b) == IF a > b THEN a ELSE b

RECURSIVE MaxWidth(_)
MaxWidth(rows) == IF rows = <<>> THEN 0 ELSE Max(Len(Head(rows)), MaxWidth(Tail(rows)))

\* ws[cell] = val : the grid grows to hold the cell
SetCell(rows, r, c, val) ==
    LET h == Max(Len(rows), r)
        w == Max(MaxWidth(rows), c)
    IN  [i \in 1..h |-> [j \in 1..w |->
            IF i = r /\ j = c THEN val ELSE CellValue(rows, i, j)]]

\* ws[range] : the rectangle of cells
RangeRows(rows, rg) ==
    [i \in 1..(rg.r2 - rg.r1 + 1) |-> [j \in 1..(rg.c2 - rg.c1 + 1) |->
        CellValue(rows, rg.r1 + i - 1, rg.c1 + j - 1)]]

\* dict(zip(headers, r)) : later duplicates of a key overwrite earlier ones
ZipDict(headers, r) ==
    LET n == Min(Len(headers), Len(r))
    IN  [k \in {headers[j] : j \in 1..n} |->
            r[CHOOSE j \in 1..n : headers[j] = k /\ \A l \in (j + 1)..n : headers[l] # k]]

\* [str(v) if v is not None else "" for v in row]
RowStrs(row) == [j \in 1..Len(row) |-> StrOrEmpty(row[j])]

(***************************************************************************)
(* excel-skill.py: the six handlers.  `a` is the parsed command line.      *)
(***************************************************************************)
ExcelMissing == "openpyxl not installed. Run: pip3 install openpyxl"

\* info: name, dimensions and stringified first row of every sheet
ExcelInfoBody(file, a) ==
    IF ~Loads(file, "xlsx", a) THEN OpenFailed(file, a) ELSE
    LET wb == file.wb
        sheets == [i \in 1..Len(wb.sheets) |->
                     LET ws == wb.sheets[i]
                     IN  [name |-> ws.name,
                          rows |-> Len(ws.rows),
                          cols |-> MaxWidth(ws.rows),
                          headers |-> IF ws.rows = <<>> THEN <<>>
                                      ELSE RowStrs(ws.rows[1])]]
    IN  Result([file |-> Expanduser(a.filepath), sheets |-> sheets], file, a)

\* list-sheets
ListSheetsBody(file, a) ==
    IF ~Loads(file, "xlsx", a) THEN OpenFailed(file, a) ELSE
    Result([sheets |-> SheetNames(file.wb)], file, a)

\* a truncation test without the max_rows > 0 guard
TruncatesUnguarded(max_rows, total) == total > Max(max_rows, 0)

\* the truncation test of read
Truncates(max_rows, total) == max_rows > 0 /\ total > max_rows

\* the rows read by `read`
ReadRows(ws, range) ==
    LET raw == IF range.some THEN RangeRows(ws.rows, range.v) ELSE ws.rows
    IN  [i \in 1..Len(raw) |-> RowStrs(raw[i])]

\* the object `read` builds from the rows read
ReadResult(rows, max_rows) ==
    IF rows # <<>>
    THEN LET headers == rows[1]
             all_rows == Tail(rows)
             total == Len(all_rows)
             truncated == Truncates(max_rows, total)
             data_rows == IF truncated THEN SubSeq(all_rows, 1, max_rows) ELSE all_rows
             data == [i \in 1..Len(data_rows) |-> ZipDict(headers, data_rows[i])]
             result == [headers |-> headers, data |-> data,
                        rowCount |-> Len(data), totalRows |-> total]
         IN  IF truncated
             THEN [headers |-> headers, data |-> data,
                   rowCount |-> Len(data), totalRows |-> total,
                   truncated |-> TRUE,
                   note |-> [showing |-> max_rows, of |-> total,
                             range |-> <<"A1:Z", NatToText(max_rows + 1)>>]]
             ELSE result
    ELSE [headers |-> <<>>, data |-> <<>>, rowCount |-> 0, totalRows |-> 0]

ReadBody(file, a) ==
    IF ~Loads(file, "xlsx", a) THEN OpenFailed(file, a) ELSE
    LET wb == file.wb
        i == SheetIndex(wb, a.sheet)
    IN  IF i = 0 THEN Raise(NoSheet(a.sheet), file, a)
        ELSE Result(ReadResult(ReadRows(wb.sheets[i], a.range), a.max_rows), file, a)

\* read-cell
ReadCellBody(file, a) ==
    IF ~Loads(file, "xlsx", a) THEN OpenFailed(file, a) ELSE
    LET wb == file.wb
        i == SheetIndex(wb, a.sheet)
    IN  IF i = 0 THEN Raise(NoSheet(a.sheet), file, a)
        ELSE IF ~a.cell.ok THEN Raise([exc |-> "ValueError", cell |-> a.cell.name], file, a)
        ELSE LET val == CellValue(wb.sheets[i].rows, a.cell.r, a.cell.c)
             IN  Result([cell |-> a.cell.name,
                         value |-> IF val # None THEN VStr(Str(val)) ELSE None], file, a)

\* the conversion of write-cell: float(value), narrowed to int when
\* integral.  int(nan) raises ValueError, which the handler's own
\* `except ValueError` catches; int(inf) raises OverflowError, which it
\* does not.
Coerce(value) ==
    LET p == ParseFloat(value)
    IN  IF ~p.ok THEN [ok |-> TRUE, val |-> VStr(value)]
        ELSE IF p.val.t = "nan" THEN [ok |-> TRUE, val |-> VStr(value)]
        ELSE IF p.val.t = "inf" THEN [ok |-> FALSE]
        ELSE IF p.val.e = 0
             THEN [ok |-> TRUE, val |-> VInt(IF p.val.neg THEN -p.val.m ELSE p.val.m)]
             ELSE [ok |-> TRUE, val |-> p.val]

\* write-cell
WriteCellBody(file, a) ==
    IF ~Loads(file, "xlsx", a) THEN OpenFailed(file, a) ELSE
    LET wb == file.wb
        i == SheetIndex(wb, a.sheet)
        co == Coerce(a.value)
    IN  IF i = 0 THEN Raise(NoSheet(a.sheet), file, a)
        ELSE IF ~co.ok THEN Raise([exc |-> "OverflowError"], file, a)
        ELSE IF ~a.cell.ok THEN Raise([exc |-> "ValueError", cell |-> a.cell.name], file, a)
        ELSE LET rows2 == SetCell(wb.sheets[i].rows, a.cell.r, a.cell.c, co.val)
                 wb2 == [wb EXCEPT !.sheets[i].rows = rows2]
             IN  Saving([cell |-> a.cell.name, value |-> Str(co.val), saved |-> TRUE],
                        XlsxFile(wb2), Expanduser(a.filepath))

\* the rows of the sheet that `search` reports, in sheet order
RECURSIVE SearchRows(_, _, _, _)
SearchRows(rows, i, headers, query) ==
    IF i > Len(rows) THEN <<>>
    ELSE LET row_strs == RowStrs(rows[i])
             hit == \E j \in 1..Len(row_strs) : Contains(query, Lower(row_strs[j]))
             rest == SearchRows(rows, i + 1, headers, query)
         IN  IF hit THEN <<[row |-> i, data |-> ZipDict(headers, row_strs)]>> \o rest
             ELSE rest

\* search with the query as typed
SearchAsTyped(rows, q) ==
    IF rows = <<>> THEN <<>>
    ELSE SearchRows(rows, 2, RowStrs(rows[1]), q)

Search(rows, q) ==
    IF rows = <<>> THEN <<>>
    ELSE SearchRows(rows, 2, RowStrs(rows[1]), Lower(q))

SearchBody(file, a) ==
    IF ~Loads(file, "xlsx", a) THEN OpenFailed(file, a) ELSE
    LET wb == file.wb
        i == SheetIndex(wb, a.sheet)
    IN  IF i = 0 THEN Raise(NoSheet(a.sheet), file, a)
        ELSE LET results == Search(wb.sheets[i].rows, a.query)
             IN  Result([query |-> a.query, matches |-> results,
                         matchCount |-> Len(results)], file, a)

\* the order of close, save and print in each handler
ExcelOrder(cmd) ==
    CASE cmd = "list-sheets" -> <<"print", "close">>
      [] cmd = "write-cell" -> <<"save", "close", "print">>
      [] OTHER -> <<"close", "print">>

(***************************************************************************)
(* Documents: [paragraphs |-> sequence of paragraphs, tables |-> sequence  *)
(* of tables]; a paragraph is [runs, style], a table [cols, rows], a row a *)
(* sequence of cells and a cell a sequence of paragraphs.                  *)
(***************************************************************************)
Para(runs) == [runs |-> runs, style |-> "Normal"]

\* paragraph.text : the texts of the runs, concatenated
ParaText(p) == Join(<<>>, p.runs)

\* cell.text : the texts of the cell's paragraphs, joined by newlines
CellText(cell) == Join(<<"\n">>, [k \in 1..Len(cell) |-> ParaText(cell[k])])

\* cell.text = s : the content becomes one paragraph of one run
TextCell(s) == <<Para(<<s>>)>>

\* a cell of a row made by table.add_row()
EmptyCell == <<Para(<<>>)>>

\* seq[k] with Python's indexing: the 1-based position, 0 for IndexError
PyIndex(seq, k) ==
    IF 0 <= k /\ k < Len(seq) THEN k + 1
    ELSE IF k < 0 /\ -k <= Len(seq) THEN Len(seq) + k + 1
    ELSE 0

RECURSIVE SumSeq(_)
SumSeq(ns) == IF ns = <<>> THEN 0 ELSE Head(ns) + SumSeq(Tail(ns))

\* re.findall(r'<<[^>]+>>|{{[^}]+}}', s) from position i on, as a set
RECURSIVE FindAll(_, _)
FindAll(s, i) ==
    IF i > Len(s) THEN {}
    ELSE LET Match(open, close) ==
                 \* end of the match that starts at i, 0 if there is none
                 IF i + 1 <= Len(s) /\ s[i] = open /\ s[i + 1] = open
                 THEN LET stops == {k \in (i + 2)..Len(s) : s[k] = close}
                          k == IF stops = {} THEN Len(s) + 1
                               ELSE CHOOSE x \in stops : \A y \in stops : x <= y
                      IN  IF k > i + 2 /\ k + 1 <= Len(s) /\ s[k + 1] = close
                          THEN k + 1 ELSE 0
                 ELSE 0
             e1 == Match("<", ">")
             e2 == Match("{", "}")
             e == IF e1 # 0 THEN e1 ELSE e2
         IN  IF e # 0 THEN {SubSeq(s, i, e)} \cup FindAll(s, e + 1)
             ELSE FindAll(s, i + 1)

(***************************************************************************)
(* word-skill.py: the six handlers.                                        *)
(***************************************************************************)
WordMissing == "python-docx not installed. Run: pip3 install python-docx"

\* info
WordInfoBody(file, a) ==
    IF ~Loads(file, "docx", a) THEN OpenFailed(file, a) ELSE
    LET doc == file.doc
        full_text == Join(<<"\n">>, [k \in 1..Len(doc.paragraphs) |->
                                        ParaText(doc.paragraphs[k])])
        tables_info == [k \in 1..Len(doc.tables) |->
            LET table == doc.tables[k]
            IN  [index |-> k - 1,
                 rows |-> Len(table.rows),
                 cols |-> table.cols,
                 headers |-> IF table.rows # <<>>
                             THEN [j \in 1..Len(table.rows[1]) |->
                                      Strip(CellText(table.rows[1][j]))]
                             ELSE <<>>]]
    IN  Result([file |-> Expanduser(a.filepath),
                paragraphs |-> Len(doc.paragraphs),
                tables |-> tables_info,
                placeholders |-> FindAll(full_text, 1)], file, a)

\* read: the paragraphs with non-blank text, indexed by their position
\* among all paragraphs
RECURSIVE NonBlank(_, _)
NonBlank(paras, i) ==
    IF i > Len(paras) THEN <<>>
    ELSE LET text == ParaText(paras[i])
         IN  (IF Strip(text) # <<>>
              THEN <<[index |-> i - 1, text |-> text, style |-> paras[i].style]>>
              ELSE <<>>) \o NonBlank(paras, i + 1)

WordReadBody(file, a) ==
    IF ~Loads(file, "docx", a) THEN OpenFailed(file, a) ELSE
    Result([paragraphs |-> NonBlank(file.doc.paragraphs, 1)], file, a)

\* read-tables
WordReadTablesBody(file, a) ==
    IF ~Loads(file, "docx", a) THEN OpenFailed(file, a) ELSE
    LET doc == file.doc
    IN  Result([tables |-> [k \in 1..Len(doc.tables) |->
            [index |-> k - 1,
             rows |-> [r \in 1..Len(doc.tables[k].rows) |->
                         [j \in 1..Len(doc.tables[k].rows[r]) |->
                             Strip(CellText(doc.tables[k].rows[r][j]))]]]]], file, a)

\* a replace loop that stops at the first run it rewrites
HitRunsFirst(p, key) ==
    LET hits == {i \in 1..Len(p.runs) : Contains(key, p.runs[i])}
    IN  IF hits = {} THEN {} ELSE {CHOOSE i \in hits : \A j \in hits : i <= j}

\* the runs of a paragraph that the replace loop rewrites
HitRuns(p, key) ==
    IF Contains(key, ParaText(p))
    THEN {i \in 1..Len(p.runs) : Contains(key, p.runs[i])}
    ELSE {}

\* the replace loop on one paragraph
ReplacePara(p, key, value) ==
    [p EXCEPT !.runs = [i \in 1..Len(p.runs) |->
        IF i \in HitRuns(p, key) THEN Replace(p.runs[i], key, value) ELSE p.runs[i]]]

ParasHits(paras, key) ==
    SumSeq([k \in 1..Len(paras) |-> Cardinality(HitRuns(paras[k], key))])

\* the two loops of replace: body paragraphs, then the paragraphs of every
\* cell of every row of every table
ReplaceDoc(doc, key, value) ==
    LET paragraphs == [k \in 1..Len(doc.paragraphs) |->
                          ReplacePara(doc.paragraphs[k], key, value)]
        tables == [t \in 1..Len(doc.tables) |->
            [doc.tables[t] EXCEPT !.rows =
                [r \in 1..Len(doc.tables[t].rows) |->
                    [c \in 1..Len(doc.tables[t].rows[r]) |->
                        [k \in 1..Len(doc.tables[t].rows[r][c]) |->
                            ReplacePara(doc.tables[t].rows[r][c][k], key, value)]]]]]
        count == ParasHits(doc.paragraphs, key)
                 + SumSeq([t \in 1..Len(doc.tables) |->
                     SumSeq([r \in 1..Len(doc.tables[t].rows) |->
                       SumSeq([c \in 1..Len(doc.tables[t].rows[r]) |->
                         ParasHits(doc.tables[t].rows[r][c], key)])])])
    IN  [doc |-> [paragraphs |-> paragraphs, tables |-> tables], count |-> count]

\* output = args.output or filepath
OutputOf(a) == IF GivenPath(a.output) THEN a.output.v ELSE a.filepath

\* replace
ReplaceBody(file, a) ==
    IF ~Loads(file, "docx", a) THEN OpenFailed(file, a) ELSE
    LET r == ReplaceDoc(file.doc, a.placeholder, a.value)
    IN  Saving([replaced |-> a.placeholder, with |-> a.value,
                count |-> r.count, saved |-> OutputOf(a)],
               DocxFile(r.doc), Expanduser(OutputOf(a)))

\* the loop of replace-batch over replacements.items(), in order
RECURSIVE BatchApply(_, _, _)
BatchApply(doc, items, counts) ==
    IF items = <<>> THEN [doc |-> doc, counts |-> counts]
    ELSE LET it == Head(items)
             r == ReplaceDoc(doc, it.key, Str(it.value))
         IN  BatchApply(r.doc, Tail(items), Append(counts, [key |-> it.key, n |-> r.count]))

\* replace-batch
ReplaceBatchBody(file, a) ==
    IF ~Loads(file, "docx", a) THEN OpenFailed(file, a) ELSE
    IF a.replacements.json = "invalid" THEN Raise([exc |-> "JSONDecodeError"], file, a)
    ELSE IF a.replacements.json # "object" THEN Raise([exc |-> "AttributeError"], file, a)
    ELSE LET r == BatchApply(file.doc, a.replacements.items, <<>>)
         IN  Saving([replacements |-> r.counts, saved |-> OutputOf(a)],
                    DocxFile(r.doc), Expanduser(OutputOf(a)))

\* the inner loop of fill-table: the cells of one table row from the
\* values of one data row
FillRow(cells, row_data) ==
    [j \in 1..Len(cells) |->
        IF j <= Len(row_data) THEN TextCell(Str(row_data[j])) ELSE cells[j]]

\* a fill-table loop with row_idx = i: data row 0 lands on table row 0
RECURSIVE FillTableFromTop(_, _, _)
FillTableFromTop(table, data, i) ==
    IF i > Len(data) THEN [ok |-> TRUE, table |-> table]
    ELSE IF data[i].json # "array"
    THEN [ok |-> FALSE,
          table |-> IF i <= Len(table.rows) THEN table
                    ELSE [table EXCEPT !.rows =
                            Append(@, [j \in 1..table.cols |-> EmptyCell])]]
    ELSE LET rows == IF i <= Len(table.rows)
                     THEN [table.rows EXCEPT ![i] = FillRow(@, data[i].items)]
                     ELSE Append(table.rows,
                                 FillRow([j \in 1..table.cols |-> EmptyCell],
                                         data[i].items))
         IN  FillTableFromTop([table EXCEPT !.rows = rows], data, i + 1)

\* the outer loop of fill-table from data row i (1-based) on; a data row
\* that is no sequence raises TypeError
RECURSIVE FillTable(_, _, _)
FillTable(table, data, i) ==
    IF i > Len(data) THEN [ok |-> TRUE, table |-> table]
    ELSE IF data[i].json # "array"
    THEN \* enumerate(row_data) raises, in the else branch after add_row()
         [ok |-> FALSE,
          table |-> IF i + 1 <= Len(table.rows) THEN table
                    ELSE [table EXCEPT !.rows =
                            Append(@, [j \in 1..table.cols |-> EmptyCell])]]
    ELSE LET row_idx == i + 1
             rows == IF row_idx <= Len(table.rows)
                     THEN [table.rows EXCEPT ![row_idx] = FillRow(@, data[i].items)]
                     ELSE Append(table.rows,
                                 FillRow([j \in 1..table.cols |-> EmptyCell],
                                         data[i].items))
         IN  FillTable([table EXCEPT !.rows = rows], data, i + 1)

\* fill-table
FillTableBody(file, a) ==
    IF ~Loads(file, "docx", a) THEN OpenFailed(file, a) ELSE
    LET doc == file.doc
        t == PyIndex(doc.tables, a.table_index)
    IN  IF a.data.json = "invalid" THEN Raise([exc |-> "JSONDecodeError"], file, a)
        ELSE IF t = 0 THEN Raise([exc |-> "IndexError"], file, a)
        ELSE IF a.data.json # "array" THEN Raise([exc |-> "TypeError"], file, a)
        ELSE LET f == FillTable(doc.tables[t], a.data.items, 1)
             IN  IF ~f.ok
                 THEN Failed([exc |-> "TypeError"],
                             DocxFile([doc EXCEPT !.tables[t] = f.table]),
                             Expanduser(OutputOf(a)))
                 ELSE Saving([table_index |-> a.table_index,
                              rows_filled |-> Len(a.data.items),
                              saved |-> OutputOf(a)],
                             DocxFile([doc EXCEPT !.tables[t] = f.table]),
                             Expanduser(OutputOf(a)))

\* the order of save and print in each handler
WordOrder(cmd) ==
    IF cmd \in {"replace", "replace-batch", "fill-table"}
    THEN <<"save", "print">> ELSE <<"print">>

\* main() of each tool around a handler's body
ExcelMain(disk, a, b) == Main(disk, a, ExcelMissing, ExcelOrder(a.cmd), b)
WordMain(disk, a, b) == Main(disk, a, WordMissing, WordOrder(a.cmd), b)

(***************************************************************************)
(* Inputs: the files Init draws and the arguments the actions draw.        *)
(***************************************************************************)
\* all sequences over S of length at most n
RECURSIVE SeqsUpTo(_, _)
SeqsUpTo(S, n) ==
    IF n = 0 THEN {<<>>}
    ELSE LET shorter == SeqsUpTo(S, n - 1)
         IN  shorter \cup {Append(q, x) : q \in shorter, x \in S}

HeaderPool ==
    { <<VStr(<<"n">>), VStr(<<"v">>)>>,
      <<VStr(<<"n">>), VStr(<<"n">>)>>,
      <<None, None>>,
      <<VStr(<<"n">>)>> }

RowPool ==
    { <<VStr(<<"A","b">>), VInt(7)>>,
      <<None, VStr(<<"b">>)>>,
      <<VStr(<<"x">>)>>,
      <<VFloat(FALSE, 15, 1), VStr(<<"a","B">>), VInt(7)>> }

Grids == {<<>>} \cup {<<h>> \o d : h \in HeaderPool, d \in SeqsUpTo(RowPool, MaxDataRows)}

OtherSheet == [name |-> "Other", rows |-> << <<VStr(<<"k">>)>>, <<VInt(42)>> >>]
Book(grid) == [sheets |-> <<[name |-> "Data", rows |-> grid], OtherSheet>>, active |-> 1]

Ph == <<"<","<","N",">",">">>

ParaPool ==
    { Para(<<Ph>>),
      Para(<<<<"<","<","N">>, <<">",">">>>>),
      Para(<<<<"x">> \o Ph \o Ph, Ph, <<"{","{","x","}","}">>>>),
      Para(<<<<" ">>>>),
      Para(<<>>) }

Header2 == <<TextCell(<<"h">>), TextCell(<<"g">>)>>

TablePool ==
    { [cols |-> 2, rows |-> <<>>],
      [cols |-> 2, rows |-> <<Header2>>],
      [cols |-> 2, rows |-> <<Header2, <<TextCell(Ph \o <<"x">>), TextCell(<<" ","y">>)>>,
                              <<TextCell(<<"z">>)>> >>] }

Docs ==
    {[paragraphs |-> ps, tables |-> <<[cols |-> 2, rows |-> <<Header2>>]>>] :
        ps \in SeqsUpTo(ParaPool, MaxParas)}
    \cup {[paragraphs |-> <<Para(<<Ph>>)>>, tables |-> ts] :
            ts \in {<<>>} \cup {<<t>> : t \in TablePool}
                   \cup {<<t, u>> : t \in TablePool, u \in TablePool}}

Book0 == Book(<<<<VStr(<<"n">>), VStr(<<"v">>)>>, <<VStr(<<"A","b">>), VInt(7)>>>>)
Doc0 == [paragraphs |-> <<Para(<<Ph>>)>>,
         tables |-> <<[cols |-> 2, rows |-> <<Header2>>]>>]

DiskOf(wb, doc) ==
    [p \in Disk |-> CASE p = BookPath -> XlsxFile(wb)
                      [] p = DocPath -> DocxFile(doc)
                      [] OTHER -> NoFile]

\* the environment of a run: the path given, whether the format library
\* can be imported, and the library call that raises
Env(p, dep, fault) == [filepath |-> p, dep |-> dep, fault |-> fault]

BookArg == <<"~", "book.xlsx">>
DocArg == <<"~", "letter.docx">>
MissingArg == <<"~", "missing">>

\* runs on the tool's own file; fault f is the library call that raises
Normal(target, F) == {Env(target, TRUE, f) : f \in F}

\* runs without the library, on a missing path, or on a file of the other tool
Abnormal(target, other) ==
    {Env(target, FALSE, "none"), Env(MissingArg, TRUE, "none"),
     Env(MissingArg, FALSE, "none"), Env(other, TRUE, "none")}

ExcelEnvs(F) == Normal(BookArg, F) \cup Abnormal(BookArg, DocPath)
WordEnvs(F) == Normal(DocArg, F) \cup Abnormal(DocArg, BookPath)

\* the command lines of one command: every argument tuple on the tool's own
\* file, one argument tuple in the other environments
Lines(E, args, dflt) ==
    {<<e, x>> : e \in {n \in E : n.dep /\ n.filepath \in {BookArg, DocArg}}, x \in args}
    \cup {<<e, dflt>> : e \in {n \in E : ~n.dep \/ n.filepath \notin {BookArg, DocArg}}}

NoFaults == {"none"}
AllFaults == {"none", "open", "save", "close"}

A1 == [name |-> "A1", ok |-> TRUE, r |-> 1, c |-> 1]
C3 == [name |-> "C3", ok |-> TRUE, r |-> 3, c |-> 3]
BadCell == [name |-> "1A", ok |-> FALSE]
TopLeft == [r1 |-> 1, c1 |-> 1, r2 |-> 2, c2 |-> 2]
MaxRowsArgs == {-1, 0, 1, 2}

ReadArgs ==
    {[sheet |-> NoArg, range |-> rg, max_rows |-> n] :
        rg \in {NoArg, Arg(TopLeft)}, n \in MaxRowsArgs}
    \cup {[sheet |-> Arg(sh), range |-> NoArg, max_rows |-> 1] : sh \in {"Other", "Nope"}}

ReadCellArgs ==
    {[cell |-> c, sheet |-> NoArg] : c \in {A1, C3, BadCell}}
    \cup {[cell |-> A1, sheet |-> Arg(sh)] : sh \in {"Other", "Nope"}}

ValueArgs == {<<"4","2">>, <<"3",".","1","4">>, <<"h","e","l","l","o">>,
              <<"0","4","2",".","0">>, <<"-",".","5","0">>, <<"N","a","N">>,
              <<"i","n","f">>, <<>>}

WriteCellArgs ==
    {[cell |-> A1, value |-> v, sheet |-> NoArg] : v \in ValueArgs}
    \cup {[cell |-> c, value |-> <<"4","2">>, sheet |-> NoArg] : c \in {C3, BadCell}}
    \cup {[cell |-> A1, value |-> <<"4","2">>, sheet |-> Arg(sh)] : sh \in {"Other", "Nope"}}

SearchArgs ==
    {[query |-> q, sheet |-> NoArg] : q \in {<<"a">>, <<"B">>, <<"7">>, <<>>}}
    \cup {[query |-> <<"K">>, sheet |-> Arg(sh)] : sh \in {"Other", "Nope"}}

OutArg == Arg(<<"~", "out.docx">>)

ReplaceArgs ==
    {[placeholder |-> ph, value |-> v, output |-> NoArg] :
        ph \in {Ph, <<"N">>}, v \in {<<"v">>, Ph \o <<"!">>}}
    \cup {[placeholder |-> <<>>, value |-> <<"v">>, output |-> NoArg],
          [placeholder |-> Ph, value |-> <<"v">>, output |-> OutArg]}

Pairs == <<[key |-> Ph, value |-> VStr(<<"N">>)], [key |-> <<"N">>, value |-> VInt(7)]>>

ReplaceBatchArgs ==
    {[replacements |-> r, output |-> NoArg] :
        r \in {[json |-> "invalid"], [json |-> "array", items |-> <<>>],
               [json |-> "object", items |-> <<>>],
               [json |-> "object", items |-> Pairs]}}

JRow(vals) == [json |-> "array", items |-> vals]
TwoRows == JRow(<<JRow(<<VStr(<<"A">>), VStr(<<"1">>)>>),
                  JRow(<<VStr(<<"B">>), VStr(<<"2">>)>>)>>)

FillTableArgs ==
    {[table_index |-> 0, data |-> d, output |-> NoArg] :
        d \in {[json |-> "invalid"], [json |-> "number"], JRow(<<>>), TwoRows,
               JRow(<<JRow(<<VInt(7), None, VStr(<<"x">>)>>)>>),
               JRow(<<JRow(<<VStr(<<"A">>)>>), [json |-> "number"]>>)}}
    \cup {[table_index |-> k, data |-> TwoRows, output |-> NoArg] : k \in {-1, 1}}
    \cup {[table_index |-> 0, data |-> TwoRows, output |-> OutArg]}

(***************************************************************************)
(* The state machine: one action per command of each tool.                 *)
(***************************************************************************)
\* one run of a tool with command line a
Run(a, o) ==
    /\ o.disk # fs => mutations < MaxMutations
    /\ fs' = o.disk
    /\ fsBefore' = fs
    /\ inv' = a
    /\ stdout' = o.out
    /\ exitCode' = o.code
    /\ events' = o.ev
    /\ mutations' = IF o.disk # fs THEN mutations + 1 ELSE mutations
    /\ lastWrite' = IF a.cmd = "write-cell" /\ o.code = 0
                    THEN Arg([sheet |-> SheetIndex(FileAt(fs, Expanduser(a.filepath)).wb, a.sheet),
                              cell |-> a.cell.name, value |-> o.out[1].value])
                    ELSE lastWrite

Cmd(tool, cmd, env, args) ==
    [tool |-> tool, cmd |-> cmd, filepath |-> env.filepath, dep |-> env.dep,
     fault |-> env.fault] @@ args

\* the file the run loads
Target(a) == FileAt(fs, Expanduser(a.filepath))

ExcelInfo(E) ==
    \E l \in Lines(E, {<<>>},
                    <<>>) :
        LET a == Cmd("excel", "info", l[1], l[2])
        IN  \E o \in {ExcelMain(fs, a, ExcelInfoBody(Target(a), a))} : Run(a, o)

ExcelListSheets(E) ==
    \E l \in Lines(E, {<<>>},
                    <<>>) :
        LET a == Cmd("excel", "list-sheets", l[1], l[2])
        IN  \E o \in {ExcelMain(fs, a, ListSheetsBody(Target(a), a))} : Run(a, o)

ExcelRead(E) ==
    \E l \in Lines(E, ReadArgs,
                    [sheet |-> NoArg, range |-> NoArg, max_rows |-> 100]) :
        LET a == Cmd("excel", "read", l[1], l[2])
        IN  \E o \in {ExcelMain(fs, a, ReadBody(Target(a), a))} : Run(a, o)

ExcelReadCell(E) ==
    \E l \in Lines(E, ReadCellArgs,
                    [cell |-> A1, sheet |-> NoArg]) :
        LET a == Cmd("excel", "read-cell", l[1], l[2])
        IN  \E o \in {ExcelMain(fs, a, ReadCellBody(Target(a), a))} : Run(a, o)

ExcelWriteCell(E) ==
    \E l \in Lines(E, WriteCellArgs,
                    [cell |-> A1, value |-> <<"4","2">>, sheet |-> NoArg]) :
        LET a == Cmd("excel", "write-cell", l[1], l[2])
        IN  \E o \in {ExcelMain(fs, a, WriteCellBody(Target(a), a))} : Run(a, o)

ExcelSearch(E) ==
    \E l \in Lines(E, SearchArgs,
                    [query |-> <<"a">>, sheet |-> NoArg]) :
        LET a == Cmd("excel", "search", l[1], l[2])
        IN  \E o \in {ExcelMain(fs, a, SearchBody(Target(a), a))} : Run(a, o)

WordInfo(E) ==
    \E l \in Lines(E, {<<>>},
                    <<>>) :
        LET a == Cmd("word", "info", l[1], l[2])
        IN  \E o \in {WordMain(fs, a, WordInfoBody(Target(a), a))} : Run(a, o)

WordRead(E) ==
    \E l \in Lines(E, {<<>>},
                    <<>>) :
        LET a == Cmd("word", "read", l[1], l[2])
        IN  \E o \in {WordMain(fs, a, WordReadBody(Target(a), a))} : Run(a, o)

WordReadTables(E) ==
    \E l \in Lines(E, {<<>>},
                    <<>>) :
        LET a == Cmd("word", "read-tables", l[1], l[2])
        IN  \E o \in {WordMain(fs, a, WordReadTablesBody(Target(a), a))} : Run(a, o)

WordReplace(E) ==
    \E l \in Lines(E, ReplaceArgs,
                    [placeholder |-> Ph, value |-> <<"v">>, output |-> NoArg]) :
        LET a == Cmd("word", "replace", l[1], l[2])
        IN  \E o \in {WordMain(fs, a, ReplaceBody(Target(a), a))} : Run(a, o)

WordReplaceBatch(E) ==
    \E l \in Lines(E, ReplaceBatchArgs,
                    [replacements |-> [json |-> "object", items |-> Pairs], output |-> NoArg]) :
        LET a == Cmd("word", "replace-batch", l[1], l[2])
        IN  \E o \in {WordMain(fs, a, ReplaceBatchBody(Target(a), a))} : Run(a, o)

WordFillTable(E) ==
    \E l \in Lines(E, FillTableArgs,
                    [table_index |-> 0, data |-> TwoRows, output |-> NoArg]) :
        LET a == Cmd("word", "fill-table", l[1], l[2])
        IN  \E o \in {WordMain(fs, a, FillTableBody(Target(a), a))} : Run(a, o)

\* no subcommand: usage text, exit status 1
NoCommand ==
    /\ \E tool \in {"excel", "word"} : inv' = [tool |-> tool, cmd |-> ""]
    /\ stdout' = <<Usage>>
    /\ exitCode' = 1
    /\ events' = <<>>
    /\ fsBefore' = fs
    /\ UNCHANGED <<fs, mutations, lastWrite>>

Start(wb, doc) ==
    /\ fs = DiskOf(wb, doc)
    /\ fsBefore = fs
    /\ inv = [tool |-> "", cmd |-> ""]
    /\ stdout = <<>>
    /\ exitCode = 0
    /\ events = <<>>
    /\ mutations = 0
    /\ lastWrite = NoArg

Init == Start(Book0, Doc0)

Commands(F) ==
    \/ ExcelInfo(ExcelEnvs(F))
    \/ ExcelListSheets(ExcelEnvs(F))
    \/ ExcelRead(ExcelEnvs(F))
    \/ ExcelReadCell(ExcelEnvs(F))
    \/ ExcelWriteCell(ExcelEnvs(F))
    \/ ExcelSearch(ExcelEnvs(F))
    \/ WordInfo(WordEnvs(F))
    \/ WordRead(WordEnvs(F))
    \/ WordReadTables(WordEnvs(F))
    \/ WordReplace(WordEnvs(F))
    \/ WordReplaceBatch(WordEnvs(F))
    \/ WordFillTable(WordEnvs(F))
    \/ NoCommand

Next == Commands(NoFaults)

Spec == Init /\ [][Next]_vars

\* the same runs, with library calls that may raise
NextFaults == Commands(AllFaults)

SpecFaults == Init /\ [][NextFaults]_vars

\* read and search over the sheets of Grids
InitSheet == \E grid \in Grids : Start(Book(grid), Doc0)

NextSheet ==
    \/ ExcelRead(Normal(BookArg, NoFaults))
    \/ ExcelSearch(Normal(BookArg, NoFaults))

SpecSheet == InitSheet /\ [][NextSheet]_vars

\* write-cell followed by read-cell
NextCell ==
    \/ ExcelWriteCell(Normal(BookArg, NoFaults))
    \/ ExcelReadCell(Normal(BookArg, NoFaults))

InitCell == \E grid \in {<<>>} \cup {<<h>> : h \in HeaderPool} : Start(Book(grid), Doc0)

SpecCell == InitCell /\ [][NextCell]_vars

\* replace, replace-batch and fill-table over the documents of Docs
InitDoc == \E doc \in Docs : Start(Book0, doc)

NextDoc ==
    \/ WordReplace(Normal(DocArg, NoFaults))
    \/ WordReplaceBatch(Normal(DocArg, NoFaults))
    \/ WordFillTable(Normal(DocArg, NoFaults))

SpecDoc == InitDoc /\ [][NextDoc]_vars

(***************************************************************************)
(* The properties.  Each is about the last run: its command line (inv),    *)
(* what it printed (stdout), its exit status, its library calls (events)   *)
(* and the disk before (fsBefore) and after (fs).                          *)
(***************************************************************************)
Named == inv.cmd # ""
Mutating == {"write-cell", "replace", "replace-batch", "fill-table"}

\* the path after home-directory expansion
ResolvedPath(p) == IF p[1] = "~" THEN <<"/home/user">> \o Tail(p) ELSE p

\* the text of a cell value in the output: empty for an empty cell
TextOf(v) == IF v = None THEN <<>> ELSE Str(v)

Before(ev, x, y) == \E i, j \in 1..Len(ev) : i < j /\ ev[i] = x /\ ev[j] = y

\* C1: every run that names a command writes exactly one JSON object: a
\* result object when it exits with 0, an error object when it exits with
\* 1, also when a library call (open, save, close) raises.
C1_ExactlyOneObject ==
    Named => /\ Len(stdout) = 1
             /\ exitCode \in {0, 1}
             /\ exitCode = 0 => ~IsError(stdout[1])
             /\ exitCode = 1 => IsError(stdout[1])

\* C2 as claimed: any command on a path that does not exist prints the
\* File not found error with the resolved path, exits with 1, opens
\* nothing and changes nothing.
C2_MissingPathAlwaysNotFound ==
    (Named /\ ~Exists(fsBefore, ResolvedPath(inv.filepath))) =>
        /\ stdout = <<ErrObj([msg |-> "File not found: ",
                              path |-> ResolvedPath(inv.filepath)])>>
        /\ exitCode = 1
        /\ events = <<>>
        /\ fs = fsBefore

\* C2 amended: the same when the tool's format library can be imported;
\* when it cannot, the missing-dependency error is printed instead (the
\* import is checked first); either way exit status 1, nothing opened,
\* nothing changed.
C2_MissingPath ==
    (Named /\ ~Exists(fsBefore, ResolvedPath(inv.filepath))) =>
        /\ stdout = <<ErrObj(IF inv.dep
                             THEN [msg |-> "File not found: ",
                                   path |-> ResolvedPath(inv.filepath)]
                             ELSE [msg |-> IF inv.tool = "excel"
                                           THEN ExcelMissing ELSE WordMissing])>>
        /\ exitCode = 1
        /\ events = <<>>
        /\ fs = fsBefore

C2_Witness ==
    /\ Named /\ inv.dep /\ inv.filepath = <<"~", "missing">>
    /\ stdout = <<ErrObj([msg |-> "File not found: ",
                          path |-> <<"/home/user", "missing">>])>>
    /\ exitCode = 1

\* the workbook the last run loaded, its sheet and the rows it read
BookBefore == FileAt(fsBefore, BookPath).wb
SheetBefore == BookBefore.sheets[SheetIndex(BookBefore, inv.sheet)]
SourceRows ==
    IF inv.range.some THEN RangeRows(SheetBefore.rows, inv.range.v) ELSE SheetBefore.rows

ReadOk == inv.tool = "excel" /\ inv.cmd = "read" /\ exitCode = 0
SearchOk == inv.tool = "excel" /\ inv.cmd = "search" /\ exitCode = 0

\* C3: in the result of read, truncated is set if and only if
\* totalRows > max_rows and max_rows > 0, where totalRows is the number of
\* rows read minus the header row.
C3_Truncated ==
    ReadOk =>
        LET r == stdout[1]
            total == IF SourceRows = <<>> THEN 0 ELSE Len(SourceRows) - 1
        IN  /\ r.totalRows = total
            /\ ("truncated" \in DOMAIN r) <=> (total > inv.max_rows /\ inv.max_rows > 0)
            /\ "truncated" \in DOMAIN r => r.truncated

C3_Witness ==
    /\ ReadOk /\ inv.max_rows = 1
    /\ "truncated" \in DOMAIN stdout[1]
    /\ stdout[1].totalRows = 2

\* the header texts of the rows read are pairwise distinct
DistinctHeaders(src) ==
    \A j, k \in 1..Len(src[1]) : j # k => TextOf(src[1][j]) # TextOf(src[1][k])

\* C4 as claimed: headers and data of read give back, by header position,
\* every cell of every row after row 1.
C4_EveryCellRecoverable ==
    (ReadOk /\ SourceRows # <<>>) =>
        LET r == stdout[1]
            src == SourceRows
        IN  /\ r.headers = [j \in 1..Len(src[1]) |-> TextOf(src[1][j])]
            /\ Len(r.data) = Len(src) - 1
            /\ \A i \in 1..(Len(src) - 1) : \A j \in 1..Len(src[i + 1]) :
                   /\ j <= Len(r.headers)
                   /\ r.headers[j] \in DOMAIN r.data[i]
                   /\ r.data[i][r.headers[j]] = TextOf(src[i + 1][j])

\* C4 amended: when the header texts are pairwise distinct, every row
\* that read returns (all of them unless truncated to max_rows) gives
\* back, by header position, the text of each cell of its sheet row that
\* lies within the header row's length.
C4_Recoverable ==
    (ReadOk /\ SourceRows # <<>> /\ DistinctHeaders(SourceRows)) =>
        LET r == stdout[1]
            src == SourceRows
        IN  /\ r.headers = [j \in 1..Len(src[1]) |-> TextOf(src[1][j])]
            /\ r.rowCount = Len(r.data)
            /\ Len(r.data) = IF "truncated" \in DOMAIN r THEN inv.max_rows
                             ELSE Len(src) - 1
            /\ \A i \in 1..Len(r.data) :
                   /\ DOMAIN r.data[i] =
                        {r.headers[j] : j \in 1..Min(Len(src[i + 1]), Len(r.headers))}
                   /\ \A j \in 1..Min(Len(src[i + 1]), Len(r.headers)) :
                        r.data[i][r.headers[j]] = TextOf(src[i + 1][j])

C4_Witness ==
    /\ ReadOk /\ ~inv.range.some /\ SourceRows # <<>> /\ DistinctHeaders(SourceRows)
    /\ SourceRows[1] = <<VStr(<<"n">>), VStr(<<"v">>)>>
    /\ Len(stdout[1].data) = 2
    /\ SourceRows[2][1] = None
    /\ stdout[1].data[1][<<"n">>] = <<>>
    /\ stdout[1].data[1][<<"v">>] = <<"b">>

\* the text write-cell reports for v, as claimed: the integer's decimal
\* form, the float's string form, or v itself
ClaimedForm(v) ==
    LET p == ParseFloat(v)
    IN  IF ~p.ok THEN v
        ELSE IF p.val.t = "float" /\ p.val.e = 0
        THEN Str(VInt(IF p.val.neg THEN -p.val.m ELSE p.val.m))
        ELSE Str(p.val)

\* C5: write-cell of v reports the claimed form of v, and a following
\* read-cell of the same cell on the same sheet returns exactly the text
\* write-cell reported.
C5_RoundTrip ==
    /\ (inv.cmd = "write-cell" /\ inv.dep /\ inv.fault = "none" /\ inv.cell.ok
          /\ Exists(fsBefore, ResolvedPath(inv.filepath))
          /\ FileAt(fsBefore, ResolvedPath(inv.filepath)).kind = "xlsx"
          /\ SheetIndex(BookBefore, inv.sheet) # 0)
        => /\ exitCode = 0
           /\ stdout[1].value = ClaimedForm(inv.value)
    /\ (inv.cmd = "read-cell" /\ exitCode = 0 /\ lastWrite.some
          /\ lastWrite.v.cell = inv.cell.name
          /\ lastWrite.v.sheet = SheetIndex(BookBefore, inv.sheet))
        => stdout[1].value = VStr(lastWrite.v.value)

\* the document the last run loaded and the one it saved
DocBefore == FileAt(fsBefore, DocPath).doc
DocAfter == FileAt(fs, ResolvedPath(IF inv.output.some THEN inv.output.v
                                    ELSE inv.filepath)).doc

ReplaceOk == inv.tool = "word" /\ inv.cmd = "replace" /\ exitCode = 0
FillOk == inv.tool = "word" /\ inv.cmd = "fill-table" /\ exitCode = 0

\* paragraph q is paragraph p with exactly the runs that contain key rewritten
RunScoped(p, q, key, value) ==
    /\ Len(q.runs) = Len(p.runs)
    /\ \A i \in 1..Len(p.runs) :
          q.runs[i] = IF Contains(key, p.runs[i])
                      THEN Replace(p.runs[i], key, value) ELSE p.runs[i]

RunsWith(p, key) == Cardinality({i \in 1..Len(p.runs) : Contains(key, p.runs[i])})

\* C6: replace rewrites exactly the runs, of body paragraphs and of
\* table-cell paragraphs, whose own text contains the placeholder, and
\* count is the number of those runs; a paragraph where the placeholder
\* is split across runs is left as it is and adds nothing to count.
C6_RunScoped ==
    ReplaceOk =>
        LET d == DocBefore
            e == DocAfter
            key == inv.placeholder
        IN  /\ Len(e.paragraphs) = Len(d.paragraphs)
            /\ \A k \in 1..Len(d.paragraphs) :
                  RunScoped(d.paragraphs[k], e.paragraphs[k], key, inv.value)
            /\ Len(e.tables) = Len(d.tables)
            /\ \A t \in 1..Len(d.tables) :
                  /\ Len(e.tables[t].rows) = Len(d.tables[t].rows)
                  /\ \A r \in 1..Len(d.tables[t].rows) :
                        /\ Len(e.tables[t].rows[r]) = Len(d.tables[t].rows[r])
                        /\ \A c \in 1..Len(d.tables[t].rows[r]) :
                              /\ Len(e.tables[t].rows[r][c]) = Len(d.tables[t].rows[r][c])
                              /\ \A k \in 1..Len(d.tables[t].rows[r][c]) :
                                    RunScoped(d.tables[t].rows[r][c][k],
                                              e.tables[t].rows[r][c][k], key, inv.value)
            /\ stdout[1].count =
                  SumSeq([k \in 1..Len(d.paragraphs) |-> RunsWith(d.paragraphs[k], key)])
                  + SumSeq([t \in 1..Len(d.tables) |->
                      SumSeq([r \in 1..Len(d.tables[t].rows) |->
                        SumSeq([c \in 1..Len(d.tables[t].rows[r]) |->
                          SumSeq([k \in 1..Len(d.tables[t].rows[r][c]) |->
                            RunsWith(d.tables[t].rows[r][c][k], key)])])])])

\* two runs rewritten (three occurrences replaced), the third run kept
C6_Witness ==
    /\ ReplaceOk /\ inv.placeholder = Ph /\ inv.value = <<"v">>
    /\ Len(DocBefore.paragraphs) = 1
    /\ DocBefore.paragraphs[1].runs = <<<<"x">> \o Ph \o Ph, Ph, <<"{","{","x","}","}">>>>
    /\ DocAfter.paragraphs[1].runs = <<<<"x","v","v">>, <<"v">>, <<"{","{","x","}","}">>>>
    /\ stdout[1].count = 2

\* the cells of a table row hold the texts of the data values, position by
\* position, as far as the row has cells
RowHolds(row, vals) ==
    \A j \in 1..Min(Len(row), Len(vals)) : CellText(row[j]) = Str(vals[j])

TableBefore == DocBefore.tables[PyIndex(DocBefore.tables, inv.table_index)]
TableAfter == DocAfter.tables[PyIndex(DocBefore.tables, inv.table_index)]

\* C7 as claimed: for a table with any number of rows, zero included, row
\* 0 is unchanged, data row i is in table row i+1, rows beyond the data
\* are unchanged and rows_filled is the number of data rows.
C7_DataBelowHeaderAnyTable ==
    FillOk =>
        LET t == TableBefore
            u == TableAfter
            data == inv.data.items
        IN  /\ stdout[1].rows_filled = Len(data)
            /\ Len(t.rows) >= 1 => u.rows[1] = t.rows[1]
            /\ \A i \in 1..Len(data) :
                  /\ i + 1 <= Len(u.rows)
                  /\ RowHolds(u.rows[i + 1], data[i].items)
            /\ \A k \in (Len(data) + 2)..Len(t.rows) : u.rows[k] = t.rows[k]

\* C7 amended: the same for a table with at least one row; on a table
\* with no row, data row i becomes table row i (no header row exists).
C7_DataBelowHeader ==
    FillOk =>
        LET t == TableBefore
            u == TableAfter
            data == inv.data.items
        IN  /\ stdout[1].rows_filled = Len(data)
            /\ IF Len(t.rows) >= 1
               THEN /\ u.rows[1] = t.rows[1]
                    /\ Len(u.rows) = Max(Len(t.rows), Len(data) + 1)
                    /\ \A i \in 1..Len(data) : RowHolds(u.rows[i + 1], data[i].items)
                    /\ \A k \in (Len(data) + 2)..Len(t.rows) : u.rows[k] = t.rows[k]
               ELSE /\ Len(u.rows) = Len(data)
                    /\ \A i \in 1..Len(data) : RowHolds(u.rows[i], data[i].items)

C7_Witness ==
    /\ FillOk /\ inv.data = TwoRows
    /\ TableBefore.rows = <<Header2>>
    /\ Len(TableAfter.rows) = 3
    /\ TableAfter.rows[1] = Header2
    /\ CellText(TableAfter.rows[3][2]) = <<"2">>
    /\ stdout[1].rows_filled = 2

\* C8: search reports a row if and only if it is not row 1 and the query
\* is, ignoring case, a substring of the text of one of its cells; each
\* match carries the 1-based row index, matches are in sheet order and
\* matchCount is their number.
C8_Search ==
    SearchOk =>
        LET r == stdout[1]
            rows == SheetBefore.rows
            Hit(i) == \E j \in 1..Len(rows[i]) :
                         Contains(Lower(inv.query), Lower(TextOf(rows[i][j])))
        IN  /\ r.matchCount = Len(r.matches)
            /\ \A m \in 1..Len(r.matches) : r.matches[m].row \in 2..Len(rows)
            /\ \A m, n \in 1..Len(r.matches) :
                  m < n => r.matches[m].row < r.matches[n].row
            /\ \A i \in 2..Len(rows) :
                  (\E m \in 1..Len(r.matches) : r.matches[m].row = i) <=> Hit(i)

C8_Witness ==
    /\ SearchOk /\ inv.query = <<"B">>
    /\ stdout[1].matchCount = 2
    /\ stdout[1].matches[1].row = 2
    /\ stdout[1].matches[2].row = 3

\* C9: in every spreadsheet command that does not fail, the workbook is
\* closed before the result is printed.
C9_ClosedBeforeResult ==
    (inv.tool = "excel" /\ Named /\ exitCode = 0) =>
        Before(events, "close", "print_result")

====
